---- MODULE Spec2Model ----
(***************************************************************************)
(* Question Engine (MathEngine.js) and shared validators of the           *)
(* gorilla-tag-fun arithmetic game.                                       *)
(*                                                                         *)
(* Strings whose characters matter (tier names, answer text) are          *)
(* sequences of one-character strings.  Template ids are plain strings.   *)
(* Math.random() is a rational k / RandDen with k in 0 .. RandDen - 1.    *)
(* The Date.now() suffix of a question id is left out: a question's id    *)
(* field is the template id it was instantiated from.                     *)
(***************************************************************************)
EXTENDS Integers, Sequences, FiniteSets, TLC

\* ---------------------------------------------------------------- bounds
\* Math.random() returns k / RandDen, 0 <= k < RandDen
RandDen == 26
\* numerators sampled for the operands by getNextQuestion in Spec
OperandStep == 25
\* numerators sampled for the template selection by getNextQuestion in Spec
SelectStep == 6
\* longest raw answer text given to validateAnswer
MaxInputLen == 3
\* largest expected answer given to validateAnswer
MaxExpected == 4

\* ------------------------------------------------------------- utilities
Max(x, y) == IF x >= y THEN x ELSE y
Min(x, y) == IF x <= y THEN x ELSE y
Abs(x) == IF x >= 0 THEN x ELSE -x

Range(s) == {s[i] : i \in 1..Len(s)}

\* Number.prototype.toString for a non-negative integer: its decimal digits
DigitChars == <<"0", "1", "2", "3", "4", "5", "6", "7", "8", "9">>

RECURSIVE NatToString(_)
NatToString(n) ==
  IF n < 10 THEN <<DigitChars[n + 1]>>
  ELSE NatToString(n \div 10) \o <<DigitChars[(n % 10) + 1]>>

NumToString(n) == IF n < 0 THEN <<"-">> \o NatToString(-n) ELSE NatToString(n)

\* ------------------------------------------------------------ tier names
easy == <<"e", "a", "s", "y">>
medium == <<"m", "e", "d", "i", "u", "m">>
hard == <<"h", "a", "r", "d">>

validLevels == <<easy, medium, hard>>

\* arguments given to setDifficulty
LevelInputs ==
  { easy, medium, hard,
    <<"M", "E", "D", "I", "U", "M">>,
    <<"i", "m", "p", "o", "s", "s", "i", "b", "l", "e">> }

NoLevel == <<>>

\* String.prototype.toLowerCase on the letters that occur in LevelInputs
UpperChars == <<"M", "E", "D", "I", "U", "H", "A", "R", "S", "Y">>
LowerChars == <<"m", "e", "d", "i", "u", "h", "a", "r", "s", "y">>

toLowerCaseChar(c) ==
  IF \E i \in 1..Len(UpperChars) : UpperChars[i] = c
  THEN LowerChars[CHOOSE i \in 1..Len(UpperChars) : UpperChars[i] = c]
  ELSE c

toLowerCase(s) == [i \in 1..Len(s) |-> toLowerCaseChar(s[i])]

\* Array.prototype.includes
includes(arr, v) == \E i \in 1..Len(arr) : arr[i] = v

\* -------------------------------------------------------- question banks
Template(id, operation, text, minValue, maxValue) ==
  [id |-> id, operation |-> operation, template |-> text,
   minValue |-> minValue, maxValue |-> maxValue]

EquationAdd == <<"{a}", " + ", "{b}", " = ?">>
EquationSub == <<"{a}", " - ", "{b}", " = ?">>

getDefaultQuestionBank ==
  (easy :> << Template("add_easy_001", "addition", EquationAdd, 0, 10),
              Template("add_easy_002", "addition",
                       <<"The gorilla found ", "{a}", " bananas. Then found ",
                         "{b}", " more. How many total?">>, 0, 10),
              Template("sub_easy_001", "subtraction", EquationSub, 0, 10),
              Template("sub_easy_002", "subtraction",
                       <<"The gorilla had ", "{a}", " bananas and ate ", "{b}",
                         ". How many are left?">>, 0, 10) >>)
  @@
  (medium :> << Template("add_medium_001", "addition", EquationAdd, 10, 25),
                Template("sub_medium_001", "subtraction", EquationSub, 10, 25),
                Template("add_medium_002", "addition",
                         <<"The gorilla swung past ", "{a}", " vines and then ",
                           "{b}", " more. How many vines total?">>, 10, 25) >>)
  @@
  (hard :> << Template("add_hard_001", "addition", EquationAdd, 25, 50),
              Template("sub_hard_001", "subtraction", EquationSub, 25, 50),
              Template("add_hard_002", "addition",
                       <<"The gorilla collected ", "{a}", " bananas yesterday and ",
                         "{b}", " today. How many total?">>, 25, 50) >>)

\* a bank handed to initialize(): two easy templates, an empty medium pool
\* and no hard pool at all
customBank ==
  (easy :> << Template("add_easy_001", "addition", EquationAdd, 0, 10),
              Template("sub_easy_001", "subtraction", EquationSub, 0, 10) >>)
  @@
  (medium :> << >>)

BankNames == {"default", "custom"}
NullBank == "null"

BankOf(name) == IF name = "default" THEN getDefaultQuestionBank ELSE customBank

\* templates of the default bank plus the two templates of the unit tests
subTestWide == Template("sub_test", "subtraction", EquationSub, 0, 20)
subTestPoint == Template("sub_test", "subtraction", EquationSub, 10, 10)
unknownOpTemplate == Template("mul_test", "multiplication", EquationAdd, 1, 5)

AllTemplates ==
  UNION { Range(getDefaultQuestionBank[t]) : t \in DOMAIN getDefaultQuestionBank }
  \cup {subTestWide, subTestPoint, unknownOpTemplate}

\* ------------------------------------------------------------ MathEngine
VARIABLES
  questionBank,       \* this.questionBank: NullBank or the name of a bank
  currentDifficulty,  \* this.currentDifficulty
  recentQuestions,    \* this.recentQuestions: template ids, oldest first
  currentQuestion,    \* this.currentQuestion: NullQuestion or a question
  lastCall,           \* the most recent call: operation, argument, return value
  drawn,              \* history: template ids drawn since the window was last
                      \* emptied, the last HistoryLen of them
  runLen,             \* history: length of the current uninterrupted run of
                      \* template draws by getNextQuestion, capped at HistoryLen
  pending             \* arguments of a direct call of generateQuestion or
                      \* validateAnswer that is about to be made

\* ProgressManager, its localStorage entry and the history of its calls
VARIABLES
  sessionData,        \* this.sessionData (the Session Record)
  persistentData,     \* this.persistentData (the Persistent Record)
  storage,            \* localStorage entry 'gorilla-math-progress'
  pmCall,             \* the most recent ProgressManager call: operation,
                      \* argument, return value
  completedHigh,      \* history: per tier, the highest score of a completed session
  completedCount      \* history: per tier, the number of completed sessions

VARIABLES
  gameState,            \* GameScene.gameState, a value of GAME_STATES
  previousState,        \* GameScene.previousState, undefined until the first pause
  currentQuestionIndex, \* GameScene.currentQuestionIndex
  attemptCount,         \* GameScene.attemptCount
  timers,               \* the delayed calls and tween completions not yet fired
  isMoving,             \* Gorilla.isMoving
  currentInput,         \* NumberPad.currentInput
  padInteractive,       \* whether the buttons of the NumberPad take input
  submitListener,       \* whether 'numberpad-submit' has its listener
  sceneCall             \* the most recent GameScene or NumberPad step

engineVars == <<questionBank, currentDifficulty, recentQuestions, currentQuestion,
                lastCall, drawn, runLen, pending>>

pmVars == <<sessionData, persistentData, storage, pmCall, completedHigh,
            completedCount>>

sceneVars == <<gameState, previousState, currentQuestionIndex, attemptCount, timers,
               isMoving, currentInput, padInteractive, submitListener, sceneCall>>

vars == <<questionBank, currentDifficulty, recentQuestions, currentQuestion,
          lastCall, drawn, runLen, pending, sessionData, persistentData, storage,
          pmCall, completedHigh, completedCount, gameState, previousState,
          currentQuestionIndex, attemptCount, timers, isMoving, currentInput,
          padInteractive, submitListener, sceneCall>>

\* ------------------------------------------- ProgressManager: the records
\* Date.now() values (startTime, elapsedTime, createdAt, lastPlayed) and the
\* random playerId are left out of the records.
TierKeys == {easy, medium, hard}

\* tier strings given to startSession: two tiers and a string that is none
TierInputs == {easy, medium, <<"M", "E", "D", "I", "U", "M">>}

getDefaultSessionData ==
  [difficulty |-> easy,
   currentQuestion |-> 0,
   totalQuestions |-> 5,
   score |-> 0,
   correctAnswers |-> 0,
   incorrectAnswers |-> 0,
   totalAnswers |-> 0,
   bananasCollected |-> 0,
   starsEarned |-> 0]

getDefaultPersistentData ==
  [totalSessions |-> 0,
   totalBananas |-> 0,
   totalStars |-> 0,
   levelsCompleted |-> [t \in TierKeys |-> << >>],
   highScores |-> [t \in TierKeys |-> 0],
   preferences |-> [soundEnabled |-> TRUE, musicEnabled |-> TRUE]]

\* localStorage.getItem gives null
NoEntry == [kind |-> "none"]
\* an entry that JSON.parse rejects
CorruptEntry == [kind |-> "text", text |-> "invalid json {]"]

NoArg == [kind |-> "none", chars |-> << >>, num |-> 0]
NoReturn == [kind |-> "none"]

PMCall(op, arg, ret, threw, saved) ==
  [op |-> op, arg |-> arg, ret |-> ret, threw |-> threw, saved |-> saved]

\* ------------------------------------------------- GameScene: the fields
\* GAME_STATES
PRESENTING_QUESTION == "presenting"
WAITING_INPUT == "waiting"
VALIDATING == "validating"
SHOWING_FEEDBACK == "feedback"
ANIMATING == "animating"
PAUSED == "paused"
COMPLETE == "complete"

\* a field that was never assigned
Undefined == "undefined"

\* GameScene.totalQuestions
TotalQuestions == 5

\* a step of the scene: the operation, the answer it was given and whether
\* handleAnswer took the answer
NoAnswer == << >>
SceneCall(op, answer, taken) == [op |-> op, answer |-> answer, taken |-> taken]

\* new GameScene() with its NumberPad, whose buttons are made interactive;
\* previousState is not assigned by the constructor
SceneConstructed ==
  /\ gameState = PRESENTING_QUESTION
  /\ previousState = Undefined
  /\ currentQuestionIndex = 0
  /\ attemptCount = 0
  /\ timers = {}
  /\ isMoving = FALSE
  /\ currentInput = << >>
  /\ padInteractive = TRUE
  /\ submitListener = FALSE
  /\ sceneCall = SceneCall("constructor", NoAnswer, FALSE)

ManagerConstructed ==
  /\ sessionData = getDefaultSessionData
  /\ persistentData = getDefaultPersistentData
  /\ storage = NoEntry
  /\ pmCall = PMCall("constructor", NoArg, NoReturn, FALSE, "none")
  /\ completedHigh = [t \in TierKeys |-> 0]
  /\ completedCount = [t \in TierKeys |-> 0]

maxRecentQuestions == 3
HistoryLen == 4

NullQuestion == [id |-> "null"]
NoTemplate == [id |-> "none"]

Call(op, level, template, ret) ==
  [op |-> op, level |-> level, template |-> template, ret |-> ret]

\* variant of randomInt whose span is one too wide
randomInt_wideSpan(min, max, k) == ((k * (max - min + 2)) \div RandDen) + min

\* Math.floor(Math.random() * (max - min + 1)) + min with Math.random() = k / RandDen
randomInt(min, max, k) == ((k * (max - min + 1)) \div RandDen) + min

\* array[Math.floor(Math.random() * array.length)] with Math.random() = k / RandDen
getRandomElement(array, k) == array[((k * Len(array)) \div RandDen) + 1]

\* String.prototype.replace(placeholder, number): the first occurrence of the
\* placeholder is replaced by the decimal digits of the number
replace(text, placeholder, value) ==
  IF \E i \in 1..Len(text) : text[i] = placeholder
  THEN LET i == CHOOSE j \in 1..Len(text) :
                  /\ text[j] = placeholder
                  /\ \A h \in 1..(j - 1) : text[h] # placeholder
       IN SubSeq(text, 1, i - 1) \o NumToString(value) \o SubSeq(text, i + 1, Len(text))
  ELSE text

\* variant of generateQuestion that renders every text in draw order
generateQuestion_drawOrder(template, ka, kb, difficulty) ==
  LET a == randomInt(template.minValue, template.maxValue, ka)
      b == randomInt(template.minValue, template.maxValue, kb)
      answer == IF template.operation = "addition" THEN a + b
                ELSE IF template.operation = "subtraction"
                     THEN Max(a, b) - Min(a, b)
                     ELSE a + b
  IN [id |-> template.id,
      operation |-> template.operation,
      questionText |-> replace(replace(template.template, "{a}", a), "{b}", b),
      answer |-> answer,
      values |-> [a |-> a, b |-> b],
      difficulty |-> difficulty]

generateQuestion(template, ka, kb, difficulty) ==
  LET a == randomInt(template.minValue, template.maxValue, ka)
      b == randomInt(template.minValue, template.maxValue, kb)
      answer == IF template.operation = "addition" THEN a + b
                ELSE IF template.operation = "subtraction"
                     THEN Max(a, b) - Min(a, b)
                     ELSE a + b
      plainText == replace(replace(template.template, "{a}", a), "{b}", b)
      questionText ==
        IF template.operation = "subtraction"
        THEN replace(replace(template.template, "{a}", Max(a, b)), "{b}", Min(a, b))
        ELSE plainText
  IN [id |-> template.id,
      operation |-> template.operation,
      questionText |-> questionText,
      answer |-> answer,
      values |-> [a |-> a, b |-> b],
      difficulty |-> difficulty]

generateFallbackQuestion(ka, kb) ==
  LET a == randomInt(1, 10, ka)
      b == randomInt(1, 10, kb)
  IN [id |-> "fallback",
      operation |-> "addition",
      questionText |-> NumToString(a) \o <<" + ">> \o NumToString(b) \o <<" = ?">>,
      answer |-> a + b,
      values |-> [a |-> a, b |-> b],
      difficulty |-> easy]

\* variant of addToRecentQuestions that drops the newest id instead of the oldest
addToRecentQuestions_dropNewest(recent, questionId) ==
  LET pushed == Append(recent, questionId)
  IN IF Len(pushed) > maxRecentQuestions
     THEN SubSeq(pushed, 1, Len(pushed) - 1) ELSE pushed

\* variant of addToRecentQuestions that already evicts at the bound
addToRecentQuestions_evictEarly(recent, questionId) ==
  LET pushed == Append(recent, questionId)
  IN IF Len(pushed) >= maxRecentQuestions THEN Tail(pushed) ELSE pushed

\* variant of addToRecentQuestions that never records the id
addToRecentQuestions_noPush(recent, questionId) == recent

addToRecentQuestions(recent, questionId) ==
  LET pushed == Append(recent, questionId)
  IN IF Len(pushed) > maxRecentQuestions THEN Tail(pushed) ELSE pushed

\* the bank getNextQuestion works with: the default bank is loaded lazily
EffectiveBank(bankName) == IF bankName = NullBank THEN "default" ELSE bankName

\* this.questionBank[difficulty]; a missing or empty pool gives <<>>
PoolOf(bankName, difficulty) ==
  LET bank == BankOf(bankName)
  IN IF difficulty \in DOMAIN bank THEN bank[difficulty] ELSE << >>

\* variant of Available that does not filter
Available_unfiltered(pool, recent) == pool

\* pool.filter(template => !this.recentQuestions.includes(template.id))
Available(pool, recent) == SelectSeq(pool, LAMBDA t : ~includes(recent, t.id))

\* history bookkeeping
LastN(s, n) == IF Len(s) > n THEN SubSeq(s, Len(s) - n + 1, Len(s)) ELSE s

RandomSamples == 0..(RandDen - 1)
OperandSamples == {k \in RandomSamples : k % OperandStep = 0}
SelectSamples == {k \in RandomSamples : k % SelectStep = 0}

NoPending == [op |-> "none"]

Constructed ==
  /\ questionBank = NullBank
  /\ currentDifficulty = easy
  /\ recentQuestions = << >>
  /\ currentQuestion = NullQuestion
  /\ lastCall = Call("constructor", NoLevel, NoTemplate, NullQuestion)
  /\ drawn = << >>
  /\ runLen = 0

Init ==
  /\ Constructed
  /\ pending = NoPending
  /\ ManagerConstructed
  /\ SceneConstructed

\* initialize(questionData)
Initialize ==
  \E data \in BankNames \cup {NullBank} :
    /\ questionBank' = IF data = NullBank THEN "default" ELSE data
    /\ lastCall' = Call("initialize", NoLevel, NoTemplate, NullQuestion)
    /\ runLen' = 0
    /\ UNCHANGED <<currentDifficulty, recentQuestions, currentQuestion, drawn, pending>>
    /\ UNCHANGED <<pmVars, sceneVars>>

\* setDifficulty(level)
SetDifficulty ==
  \E level \in LevelInputs :
    /\ IF ~includes(validLevels, level)
       THEN /\ currentDifficulty' = easy
            /\ UNCHANGED <<recentQuestions, drawn>>
       ELSE /\ currentDifficulty' = level
            /\ recentQuestions' = << >>
            /\ drawn' = << >>
    /\ lastCall' = Call("setDifficulty", level, NoTemplate, NullQuestion)
    /\ runLen' = 0
    /\ UNCHANGED <<questionBank, currentQuestion, pending>>
    /\ UNCHANGED <<pmVars, sceneVars>>

\* getNextQuestion()
GetNextQuestion ==
  \E ks \in SelectSamples, ka \in OperandSamples, kb \in OperandSamples :
    LET bankName == EffectiveBank(questionBank)
        pool == PoolOf(bankName, currentDifficulty)
        available == Available(pool, recentQuestions)
        questionPool == IF Len(available) > 0 THEN available ELSE pool
    IN /\ questionBank' = bankName
       /\ IF Len(pool) = 0
          THEN /\ lastCall' = Call("getNextQuestion", NoLevel, NoTemplate,
                                   generateFallbackQuestion(ka, kb))
               /\ runLen' = 0
               /\ UNCHANGED <<recentQuestions, currentQuestion, drawn>>
          ELSE LET template == getRandomElement(questionPool, ks)
                   question == generateQuestion(template, ka, kb, currentDifficulty)
               IN /\ recentQuestions' = addToRecentQuestions(recentQuestions, template.id)
                  /\ currentQuestion' = question
                  /\ lastCall' = Call("getNextQuestion", NoLevel, template, question)
                  /\ drawn' = LastN(Append(drawn, template.id), HistoryLen)
                  /\ runLen' = Min(runLen + 1, HistoryLen)
       /\ UNCHANGED <<currentDifficulty, pending>>
       /\ UNCHANGED <<pmVars, sceneVars>>

\* reset()
Reset ==
  /\ currentQuestion' = NullQuestion
  /\ recentQuestions' = << >>
  /\ drawn' = << >>
  /\ runLen' = 0
  /\ lastCall' = Call("reset", NoLevel, NoTemplate, NullQuestion)
  /\ UNCHANGED <<questionBank, currentDifficulty, pending>>
  /\ UNCHANGED <<pmVars, sceneVars>>

Next == Initialize \/ SetDifficulty \/ GetNextQuestion \/ Reset

Spec == Init /\ [][Next]_vars

\* ------------------------------------- generateQuestion called directly
\* engine.generateQuestion(template), as the unit tests call it
GenerateInputs ==
  { [op |-> "generateQuestion", template |-> t, ka |-> ka, kb |-> kb] :
      t \in AllTemplates, ka \in RandomSamples, kb \in RandomSamples }

InitGen ==
  /\ Constructed
  /\ pending \in GenerateInputs
  /\ ManagerConstructed
  /\ SceneConstructed

GenerateQuestionCall ==
  /\ pending.op = "generateQuestion"
  /\ lastCall' = Call("generateQuestion", NoLevel, pending.template,
                      generateQuestion(pending.template, pending.ka, pending.kb,
                                       currentDifficulty))
  /\ pending' = NoPending
  /\ UNCHANGED <<questionBank, currentDifficulty, recentQuestions, currentQuestion,
                 drawn, runLen>>
  /\ UNCHANGED <<pmVars, sceneVars>>

NextGen == GenerateQuestionCall

SpecGen == InitGen /\ [][NextGen]_vars

\* --------------------------------------------------------- answer checking
\* characters of the raw answer text
InputChars == {"0", "1", "2", "-", " ", "a"}

IsDigit(c) == \E i \in 1..Len(DigitChars) : DigitChars[i] = c
DigitValue(c) == (CHOOSE i \in 1..Len(DigitChars) : DigitChars[i] = c) - 1

\* a JavaScript value handed over as the answer: a string, a number or null
StringInput(chars) == [kind |-> "string", chars |-> chars, num |-> 0]
NumberInput(n) == [kind |-> "number", chars |-> << >>, num |-> n]
NullInput == [kind |-> "null", chars |-> << >>, num |-> 0]

\* a parsed number or NaN
NaN == [nan |-> TRUE, val |-> 0]
Num(n) == [nan |-> FALSE, val |-> n]

RECURSIVE trimStart(_)
trimStart(s) == IF Len(s) > 0 /\ Head(s) = " " THEN trimStart(Tail(s)) ELSE s

RECURSIVE trimEnd(_)
trimEnd(s) ==
  IF Len(s) > 0 /\ s[Len(s)] = " " THEN trimEnd(SubSeq(s, 1, Len(s) - 1)) ELSE s

\* String.prototype.trim
trim(s) == trimEnd(trimStart(s))

\* replace(/[^0-9-]/g, '') and replace(/[^\d-]/g, '')
keepDigitsAndMinus(s) == SelectSeq(s, LAMBDA c : IsDigit(c) \/ c = "-")

\* replace(/-/g, '')
removeMinus(s) == SelectSeq(s, LAMBDA c : c # "-")

\* value of a string of digits
RECURSIVE DigitsValue(_)
DigitsValue(s) ==
  IF Len(s) = 0 THEN 0
  ELSE 10 * DigitsValue(SubSeq(s, 1, Len(s) - 1)) + DigitValue(s[Len(s)])

\* the longest prefix of s made of digits
RECURSIVE DigitPrefix(_)
DigitPrefix(s) ==
  IF Len(s) > 0 /\ IsDigit(Head(s)) THEN <<Head(s)>> \o DigitPrefix(Tail(s)) ELSE << >>

\* parseInt(s, 10) on a string without white space: an optional sign, then
\* the leading digits; NaN when there is no leading digit
parseInt(s) ==
  LET negative == Len(s) > 0 /\ Head(s) = "-"
      rest == IF negative THEN Tail(s) ELSE s
      digits == DigitPrefix(rest)
  IN IF Len(digits) = 0 THEN NaN
     ELSE Num(IF negative THEN -DigitsValue(digits) ELSE DigitsValue(digits))

\* Number(s) on a string of digits and minus signs: the whole string has to
\* be a number
Number(s) ==
  LET negative == Len(s) > 0 /\ Head(s) = "-"
      rest == IF negative THEN Tail(s) ELSE s
  IN IF Len(rest) > 0 /\ \A i \in 1..Len(rest) : IsDigit(rest[i])
     THEN Num(IF negative THEN -DigitsValue(rest) ELSE DigitsValue(rest))
     ELSE NaN

\* String(input) / input.toString() for a string or a number
InputToString(input) ==
  IF input.kind = "number" THEN NumToString(input.num) ELSE input.chars

\* results
Threw == [threw |-> TRUE]
Rejected(message) ==
  [threw |-> FALSE, valid |-> FALSE, correct |-> FALSE, message |-> message]
Graded(correct, close, parsed, expected, message) ==
  [threw |-> FALSE, valid |-> TRUE, correct |-> correct, close |-> close,
   userAnswer |-> parsed, correctAnswer |-> expected, message |-> message]

\* MathEngine.sanitizeInput; null.toString() throws and is handled by the caller
MathEngine_sanitizeInput(input) ==
  IF input.kind = "number" THEN NumToString(input.num)
  ELSE keepDigitsAndMinus(trim(input.chars))

\* MathEngine.isValidNumber on the result of parseInt
MathEngine_isValidNumber(value) == ~value.nan

NoExpected == [given |-> FALSE, val |-> 0]
Expected(n) == [given |-> TRUE, val |-> n]

\* variant of MathEngine.validateAnswer that reports close for every answer
\* within 2, the exact one included
MathEngine_validateAnswer_closeWhenExact(userInput, correctAnswer, question) ==
  LET expected == IF correctAnswer.given THEN correctAnswer
                  ELSE IF question # NullQuestion THEN Expected(question.answer)
                       ELSE NoExpected
  IN IF ~expected.given THEN Rejected("No question to validate against")
     ELSE IF userInput.kind = "null" THEN Threw
     ELSE LET cleaned == MathEngine_sanitizeInput(userInput)
              userAnswer == parseInt(cleaned)
          IN IF ~MathEngine_isValidNumber(userAnswer)
             THEN Rejected("Please enter a valid number")
             ELSE LET isCorrect == userAnswer.val = expected.val
                      isClose == Abs(userAnswer.val - expected.val) <= 2
                  IN Graded(isCorrect, isClose, userAnswer.val, expected.val,
                            IF isCorrect THEN "correct message"
                            ELSE IF isClose THEN "close message" ELSE "far message")

\* MathEngine.validateAnswer(userInput, correctAnswer = null)
MathEngine_validateAnswer(userInput, correctAnswer, question) ==
  LET expected == IF correctAnswer.given THEN correctAnswer
                  ELSE IF question # NullQuestion THEN Expected(question.answer)
                       ELSE NoExpected
  IN IF ~expected.given THEN Rejected("No question to validate against")
     ELSE IF userInput.kind = "null" THEN Threw
     ELSE LET cleaned == MathEngine_sanitizeInput(userInput)
              userAnswer == parseInt(cleaned)
          IN IF ~MathEngine_isValidNumber(userAnswer)
             THEN Rejected("Please enter a valid number")
             ELSE LET isCorrect == userAnswer.val = expected.val
                      isClose == Abs(userAnswer.val - expected.val) <= 2
                  IN Graded(isCorrect, ~isCorrect /\ isClose, userAnswer.val,
                            expected.val,
                            IF isCorrect THEN "correct message"
                            ELSE IF isClose THEN "close message" ELSE "far message")

\* validators.sanitizeInput
sanitizeInput(input) ==
  IF input.kind = "null" THEN << >>
  ELSE LET kept == keepDigitsAndMinus(trim(InputToString(input)))
           noInnerMinus ==
             IF \E i \in 2..Len(kept) : kept[i] = "-" /\ kept[1] # "-"
             THEN removeMinus(kept) ELSE kept
           minusCount == Cardinality({i \in 1..Len(noInnerMinus) : noInnerMinus[i] = "-"})
       IN IF minusCount + 1 > 2 THEN <<"-">> \o removeMinus(noInnerMinus)
          ELSE noInnerMinus

\* validators.isValidNumber on a sanitized string
isValidNumber(str) ==
  IF trim(str) = << >> THEN FALSE ELSE ~Number(trim(str)).nan

ValidatorsGraded(correct, close, value, message) ==
  [threw |-> FALSE, valid |-> TRUE, correct |-> correct, close |-> close,
   value |-> value, message |-> message]

\* validators.validateAnswer(input, expected)
validateAnswer(input, expected) ==
  LET cleaned == sanitizeInput(input)
  IN IF ~isValidNumber(cleaned) THEN Rejected("Please enter a number")
     ELSE LET userAnswer == parseInt(cleaned)
              isCorrect == userAnswer.val = expected
              isClose == Abs(userAnswer.val - expected) <= 2
          IN ValidatorsGraded(isCorrect, ~isCorrect /\ isClose, userAnswer.val,
                              IF isCorrect THEN "Correct!" ELSE "Not quite, try again!")

\* raw answers: every text of at most MaxInputLen characters, null, and numbers
AnswerInputs ==
  {StringInput(chars) : chars \in UNION {[1..n -> InputChars] : n \in 0..MaxInputLen}}
  \cup {NumberInput(n) : n \in (-3)..(MaxExpected + 3)}
  \cup {NullInput}

ValidateInputs ==
  { [op |-> "validateAnswer", impl |-> "MathEngine", input |-> i, expected |-> e] :
      i \in AnswerInputs, e \in {Expected(n) : n \in 0..MaxExpected} \cup {NoExpected} }
  \cup
  { [op |-> "validateAnswer", impl |-> "validators", input |-> i, expected |-> e] :
      i \in AnswerInputs, e \in {Expected(n) : n \in 0..MaxExpected} }

InitValidate ==
  /\ Constructed
  /\ pending \in ValidateInputs
  /\ ManagerConstructed
  /\ SceneConstructed

\* the first getNextQuestion() of a game, which sets the current question
AskQuestion ==
  /\ lastCall.op = "constructor"
  /\ GetNextQuestion

\* engine.validateAnswer(input, expected) or validateAnswer(input, expected);
\* neither changes the engine
ValidateAnswerCall ==
  /\ pending.op = "validateAnswer"
  /\ lastCall' =
       Call("validateAnswer", NoLevel, NoTemplate,
            IF pending.impl = "MathEngine"
            THEN MathEngine_validateAnswer(pending.input, pending.expected,
                                           currentQuestion)
            ELSE validateAnswer(pending.input, pending.expected.val))
  /\ pending' = [pending EXCEPT !.op = "returned"]
  /\ UNCHANGED <<questionBank, currentDifficulty, recentQuestions, currentQuestion,
                 drawn, runLen>>
  /\ UNCHANGED <<pmVars, sceneVars>>

NextValidate == AskQuestion \/ ValidateAnswerCall

SpecValidate == InitValidate /\ [][NextValidate]_vars

\* ================================================================ claims
\* what the last getNextQuestion or generateQuestion call returned, when it
\* instantiated a template
InstantiatedTemplate ==
  /\ lastCall.op \in {"generateQuestion", "getNextQuestion"}
  /\ lastCall.template # NoTemplate

\* C1: every question instantiated from a template with range
\* [minValue, maxValue] has both operands inside the range, and an addition
\* question has answer = a + b
C1_OperandsInRange ==
  InstantiatedTemplate =>
    LET t == lastCall.template
        q == lastCall.ret
    IN /\ q.values.a \in t.minValue..t.maxValue
       /\ q.values.b \in t.minValue..t.maxValue
       /\ (t.operation = "addition" => q.answer = q.values.a + q.values.b)

\* an addition question whose operands are the two ends of a proper range
C1_Witness ==
  /\ InstantiatedTemplate
  /\ lastCall.template.operation = "addition"
  /\ lastCall.template.minValue < lastCall.template.maxValue
  /\ lastCall.ret.values.a = lastCall.template.maxValue
  /\ lastCall.ret.values.b = lastCall.template.minValue

\* the template text with x written for {a} and y for {b}
RECURSIVE Rendered(_, _, _)
Rendered(text, x, y) ==
  IF Len(text) = 0 THEN << >>
  ELSE (IF Head(text) = "{a}" THEN NumToString(x)
        ELSE IF Head(text) = "{b}" THEN NumToString(y)
        ELSE <<Head(text)>>) \o Rendered(Tail(text), x, y)

\* C2: a subtraction question has answer = |a - b| >= 0 and its text shows
\* the larger operand for {a} and the smaller for {b}, whatever the draw order
C2_SubtractionLargerFirst ==
  (InstantiatedTemplate /\ lastCall.template.operation = "subtraction") =>
    LET t == lastCall.template
        q == lastCall.ret
        a == q.values.a
        b == q.values.b
    IN /\ q.answer = Abs(a - b)
       /\ q.answer >= 0
       /\ q.questionText = Rendered(t.template, Max(a, b), Min(a, b))

\* a subtraction question whose first operand was drawn smaller than the second
C2_Witness ==
  /\ InstantiatedTemplate
  /\ lastCall.template.operation = "subtraction"
  /\ lastCall.ret.values.a < lastCall.ret.values.b

\* a step of getNextQuestion that instantiated a template of the active pool
DrewTemplate ==
  /\ lastCall'.op = "getNextQuestion"
  /\ lastCall'.template # NoTemplate

ActivePool == PoolOf(EffectiveBank(questionBank), currentDifficulty)

PoolIds(pool) == {pool[i].id : i \in 1..Len(pool)}

\* C3: getNextQuestion selects a template whose id is in the recent-question
\* window only when every template of the active pool is in the window
C3_WindowRespected ==
  [][DrewTemplate =>
       (includes(recentQuestions, lastCall'.template.id)
          => \A id \in PoolIds(ActivePool) : includes(recentQuestions, id))]_vars

\* the whole pool was in the window and the template used just before was
\* selected again
C3_Witness ==
  /\ lastCall.op = "getNextQuestion"
  /\ lastCall.template # NoTemplate
  /\ runLen >= 2
  /\ drawn[Len(drawn)] = drawn[Len(drawn) - 1]
  /\ PoolIds(ActivePool) \subseteq Range(recentQuestions)

\* the template ids of the last n draws of the current run
LastDraws(n) == LastN(drawn, n)

\* C4: in a run of getNextQuestion calls on a pool with at least 2 distinct
\* templates, every 4 consecutive draws contain at least 2 distinct ids
C4_NoFourInARow ==
  (runLen >= 4 /\ Cardinality(PoolIds(ActivePool)) >= 2)
    => Cardinality(Range(LastDraws(4))) >= 2

\* one template drawn three times in a row, then another one
C4_Witness ==
  /\ runLen >= 4
  /\ Cardinality(PoolIds(ActivePool)) >= 2
  /\ LastDraws(4)[1] = LastDraws(4)[2]
  /\ LastDraws(4)[2] = LastDraws(4)[3]
  /\ LastDraws(4)[3] # LastDraws(4)[4]

\* two consecutive draws of the current run used the same template
ImmediateRepeat ==
  /\ runLen >= 2
  /\ drawn[Len(drawn)] = drawn[Len(drawn) - 1]

C6_WindowIsLastThree ==
  /\ Len(recentQuestions) <= 3
  /\ recentQuestions = LastN(drawn, 3)

\* a fourth draw since the window was emptied has evicted the oldest id
C6_Witness ==
  /\ lastCall.op = "getNextQuestion"
  /\ Len(drawn) >= 4
  /\ ~includes(recentQuestions, drawn[1])

\* C7 as stated: after every setDifficulty call, also one with an
\* unrecognised tier, the window is empty
C7_WindowEmptyAfterSetDifficulty ==
  lastCall.op = "setDifficulty" => recentQuestions = << >>

\* C8 as stated: setDifficulty matches the tier names case-insensitively and
\* falls back to easy only for a string that matches none of them
C8_CaseInsensitiveTier ==
  lastCall.op = "setDifficulty" =>
    currentDifficulty =
      (IF includes(validLevels, toLowerCase(lastCall.level))
       THEN toLowerCase(lastCall.level) ELSE easy)

\* C9 as stated: every getNextQuestion call returns a question and leaves
\* exactly that question as the current question
C9_ReturnedIsCurrent ==
  lastCall.op = "getNextQuestion" =>
    /\ lastCall.ret # NullQuestion
    /\ currentQuestion = lastCall.ret

\* the expected value of the validateAnswer call that has returned
ExpectedOfCall ==
  IF pending.expected.given THEN pending.expected.val ELSE currentQuestion.answer

\* the parsed answer in the result of the validateAnswer call
ParsedOfCall ==
  IF pending.impl = "MathEngine" THEN lastCall.ret.userAnswer ELSE lastCall.ret.value

ValidResult ==
  /\ lastCall.op = "validateAnswer"
  /\ ~lastCall.ret.threw
  /\ lastCall.ret.valid

\* C10: in every valid result of validateAnswer (MathEngine and validators)
\* correct and close are never both true, correct holds iff parsed = expected
\* and close holds iff 0 < |parsed - expected| <= 2
C10_CorrectCloseExclusive ==
  ValidResult =>
    LET d == Abs(ParsedOfCall - ExpectedOfCall)
    IN /\ ~(lastCall.ret.correct /\ lastCall.ret.close)
       /\ (lastCall.ret.correct <=> ParsedOfCall = ExpectedOfCall)
       /\ (lastCall.ret.close <=> (0 < d /\ d <= 2))

\* an answer text graded as close against the answer of the current question
C10_Witness ==
  /\ ValidResult
  /\ pending.impl = "MathEngine"
  /\ pending.input.kind = "string"
  /\ ~pending.expected.given
  /\ lastCall.ret.close
  /\ Abs(ParsedOfCall - ExpectedOfCall) = 2

\* a call of MathEngine.validateAnswer that has returned (or thrown)
EngineValidateCall ==
  /\ lastCall.op = "validateAnswer"
  /\ pending.impl = "MathEngine"

\* the answer text after trim() and the removal of everything but digits and minus
KeptText == keepDigitsAndMinus(trim(pending.input.chars))

\* C11 as stated: MathEngine.sanitizeInput keeps only digits and a minus
\* sign, removes every minus sign when one occurs after position 0 (taken
\* here for a text that does not also start with one, as in '1-5'), and
\* validateAnswer then parses the remaining digits as one number
C11_InnerMinusRemoved ==
  (EngineValidateCall /\ pending.input.kind = "string") =>
    LET cleaned == MathEngine_sanitizeInput(pending.input)
        innerMinus == /\ Len(KeptText) > 0
                      /\ KeptText[1] # "-"
                      /\ \E i \in 2..Len(KeptText) : KeptText[i] = "-"
    IN /\ \A i \in 1..Len(cleaned) : IsDigit(cleaned[i]) \/ cleaned[i] = "-"
       /\ (innerMinus => cleaned = removeMinus(KeptText))
       /\ ((innerMinus /\ Len(removeMinus(KeptText)) > 0 /\ pending.expected.given)
             => /\ ~lastCall.ret.threw
                /\ lastCall.ret.valid
                /\ lastCall.ret.userAnswer = DigitsValue(removeMinus(KeptText)))

\* an answer text without digits: empty, white space only, letters, minus signs
NoDigits(chars) == \A i \in 1..Len(chars) : ~IsDigit(chars[i])

\* C12 as stated: with a current question set, validateAnswer never throws,
\* and for null, the empty string, white space only or text without digits
\* it returns valid = false and correct = false
C12_NeverThrows ==
  (EngineValidateCall /\ currentQuestion # NullQuestion /\ ~pending.expected.given) =>
    /\ ~lastCall.ret.threw
    /\ ((pending.input.kind = "null"
         \/ (pending.input.kind = "string" /\ NoDigits(pending.input.chars)))
          => (~lastCall.ret.valid /\ ~lastCall.ret.correct))

\* ========================================================= ProgressManager
\* largest points value given to incrementScore
MaxPoints == 2
\* incrementScore is not called once the score would pass MaxScore
MaxScore == 2
\* addBananas is not called once the count would pass MaxBananas
MaxBananas == 1
\* recordAnswer calls per session in SpecProgress and SpecStorage
MaxAnswers == 1
\* recordAnswer calls per session in SpecStars
MaxAnswersStars == 20
\* completeSession calls per Persistent Record
MaxSessions == 2
MaxStoredSessions == 1

\* an argument that was left out (undefined)
UndefinedInput == [kind |-> "undefined", chars |-> << >>, num |-> 0]

\* values given to incrementScore and addBananas
PointInputs ==
  {NumberInput(n) : n \in (-1)..MaxPoints}
  \cup {StringInput(<<"a">>), NullInput, UndefinedInput}

\* typeof value !== 'number' || value < 0
InvalidAmount(value) == value.kind # "number" \/ value.num < 0

\* startSession(difficulty = 'easy', totalQuestions = 5)
startSession(difficulty, totalQuestions) ==
  [getDefaultSessionData EXCEPT !.difficulty = difficulty,
                                !.totalQuestions = totalQuestions]

\* variant of incrementScore that clamps a negative value instead of rejecting it
incrementScore_absolute(session, points) ==
  IF points.kind # "number" THEN session
  ELSE [session EXCEPT !.score = @ + Abs(points.num)]

\* incrementScore(points)
incrementScore(session, points) ==
  IF InvalidAmount(points) THEN session
  ELSE [session EXCEPT !.score = @ + points.num]

\* recordAnswer(isCorrect)
recordAnswer(session, isCorrect) ==
  IF isCorrect
  THEN [session EXCEPT !.totalAnswers = @ + 1, !.correctAnswers = @ + 1]
  ELSE [session EXCEPT !.totalAnswers = @ + 1, !.incorrectAnswers = @ + 1]

\* addBananas(count = 1): a left-out argument counts as 1
addBananas(session, count) ==
  LET given == IF count.kind = "undefined" THEN NumberInput(1) ELSE count
  IN IF InvalidAmount(given) THEN session
     ELSE [session EXCEPT !.bananasCollected = @ + given.num]

\* calculateAccuracy(): (correctAnswers / totalAnswers) * 100 as the fraction
\* num / den; 0 when no answer was recorded.  For totals up to 3000 the
\* floating-point value compares with 95, 80 and 60 as the fraction does.
calculateAccuracy(session) ==
  IF session.totalAnswers = 0 THEN [num |-> 0, den |-> 1]
  ELSE [num |-> session.correctAnswers * 100, den |-> session.totalAnswers]

\* accuracy >= percent
AtLeast(accuracy, percent) == accuracy.num >= percent * accuracy.den

\* variant of calculateStars whose top threshold is exclusive
calculateStars_exclusiveTop(session) ==
  LET accuracy == calculateAccuracy(session)
  IN IF accuracy.num > 95 * accuracy.den THEN 3
     ELSE IF AtLeast(accuracy, 80) THEN 2
     ELSE IF AtLeast(accuracy, 60) THEN 1
     ELSE 0

\* calculateStars()
calculateStars(session) ==
  LET accuracy == calculateAccuracy(session)
  IN IF AtLeast(accuracy, 95) THEN 3
     ELSE IF AtLeast(accuracy, 80) THEN 2
     ELSE IF AtLeast(accuracy, 60) THEN 1
     ELSE 0

\* variant of UpdatedTotals that adds the stars already stamped in the
\* Session Record instead of the rating of this completion
UpdatedTotals_staleStars(persistent, session, stars) ==
  [persistent EXCEPT !.totalSessions = @ + 1,
                     !.totalBananas = @ + session.bananasCollected,
                     !.totalStars = @ + session.starsEarned]

\* completeSession, the lifetime totals
UpdatedTotals(persistent, session, stars) ==
  [persistent EXCEPT !.totalSessions = @ + 1,
                     !.totalBananas = @ + session.bananasCollected,
                     !.totalStars = @ + stars]

\* variant of UpdatedHighScore that stores the latest score of the tier
UpdatedHighScore_latest(persistent, difficulty, score) ==
  IF difficulty \in DOMAIN persistent.highScores
  THEN [persistent EXCEPT !.highScores[difficulty] = score]
  ELSE persistent

\* completeSession, the high score: score > highScores[difficulty] is false
\* when the tier has no entry
UpdatedHighScore(persistent, difficulty, score) ==
  IF difficulty \in DOMAIN persistent.highScores
     /\ score > persistent.highScores[difficulty]
  THEN [persistent EXCEPT !.highScores[difficulty] = score]
  ELSE persistent

\* variant of UpdatedLevels that numbers the level by the lifetime session
\* count
UpdatedLevels_bySessionCount(persistent, difficulty) ==
  LET levelNumber == persistent.totalSessions
  IN IF includes(persistent.levelsCompleted[difficulty], levelNumber) THEN persistent
     ELSE [persistent EXCEPT !.levelsCompleted[difficulty] = Append(@, levelNumber)]

\* completeSession, the completed levels of a tier that has a list
UpdatedLevels(persistent, difficulty) ==
  LET levelNumber == Len(persistent.levelsCompleted[difficulty]) + 1
  IN IF includes(persistent.levelsCompleted[difficulty], levelNumber) THEN persistent
     ELSE [persistent EXCEPT !.levelsCompleted[difficulty] = Append(@, levelNumber)]

\* the merge of completeSession: the stars are stamped, the totals grow, the
\* high score of the tier is raised, the next level number of the tier is
\* appended.  A tier string that is no key of levelsCompleted makes
\* levelsCompleted[difficulty].length throw after the totals were updated.
completeSessionMerge(session, persistent) ==
  LET stars == calculateStars(session)
      stamped == [session EXCEPT !.starsEarned = stars]
      difficulty == session.difficulty
      scored == UpdatedHighScore(UpdatedTotals(persistent, session, stars),
                                 difficulty, session.score)
      throws == difficulty \notin DOMAIN scored.levelsCompleted
  IN [session |-> stamped,
      persistent |-> IF throws THEN scored ELSE UpdatedLevels(scored, difficulty),
      threw |-> throws,
      stars |-> stars]

\* the results object returned by completeSession
SessionResults(session, stars) ==
  [score |-> session.score,
   accuracy |-> calculateAccuracy(session),
   stars |-> stars,
   bananas |-> session.bananasCollected,
   correctAnswers |-> session.correctAnswers,
   totalAnswers |-> session.totalAnswers]

\* JSON.stringify(data): numbers, booleans, strings, arrays and plain objects
\* are written as they are
JSON_stringify(data) == [kind |-> "json", value |-> data]

\* the object saveProgress writes
StoredData(session, persistent) ==
  [persistent |-> persistent,
   lastSession |-> [difficulty |-> session.difficulty,
                    score |-> session.score,
                    stars |-> session.starsEarned,
                    bananas |-> session.bananasCollected]]

\* saveProgress(): the entry afterwards; setItem may throw, which is caught
saveProgress(session, persistent, entry, writable) ==
  IF writable THEN JSON_stringify(StoredData(session, persistent)) ELSE entry

\* { ...defaults, ...stored }
SpreadOver(defaults, stored) ==
  [f \in (DOMAIN defaults) \cup (DOMAIN stored) |->
     IF f \in DOMAIN stored THEN stored[f] ELSE defaults[f]]

\* variant of loadProgress that falls back to the defaults when the entry
\* cannot be used
loadProgress_resetOnFailure(persistent, entry, readable) ==
  IF ~readable \/ entry.kind # "json"
  THEN [persistent |-> getDefaultPersistentData, success |-> FALSE]
  ELSE IF "persistent" \in DOMAIN entry.value
       THEN [persistent |-> SpreadOver(getDefaultPersistentData, entry.value.persistent),
             success |-> TRUE]
       ELSE [persistent |-> persistent, success |-> TRUE]

\* loadProgress(): getItem may throw, the entry may be missing, JSON.parse may
\* throw; all of these give false and change nothing
loadProgress(persistent, entry, readable) ==
  IF ~readable THEN [persistent |-> persistent, success |-> FALSE]
  ELSE IF entry = NoEntry THEN [persistent |-> persistent, success |-> FALSE]
  ELSE IF entry.kind # "json" THEN [persistent |-> persistent, success |-> FALSE]
  ELSE IF "persistent" \in DOMAIN entry.value
       THEN [persistent |-> SpreadOver(getDefaultPersistentData, entry.value.persistent),
             success |-> TRUE]
       ELSE [persistent |-> persistent, success |-> TRUE]

\* variant of completeSession that restores the Persistent Record when the
\* write fails
completeSession_rollback(session, persistent, entry, writable) ==
  LET merged == completeSessionMerge(session, persistent)
  IN IF merged.threw
     THEN [session |-> merged.session, persistent |-> merged.persistent,
           entry |-> entry, returned |-> NoReturn, threw |-> TRUE,
           saved |-> "none"]
     ELSE [session |-> merged.session,
           persistent |-> IF writable THEN merged.persistent ELSE persistent,
           entry |-> saveProgress(merged.session, merged.persistent, entry, writable),
           returned |-> SessionResults(merged.session, merged.stars),
           threw |-> FALSE,
           saved |-> IF writable THEN "written" ELSE "failed"]

\* completeSession(): the merge, then saveProgress, then the results; a throw
\* in the merge leaves the updates made so far and skips the rest
completeSession(session, persistent, entry, writable) ==
  LET merged == completeSessionMerge(session, persistent)
  IN IF merged.threw
     THEN [session |-> merged.session, persistent |-> merged.persistent,
           entry |-> entry, returned |-> NoReturn, threw |-> TRUE,
           saved |-> "none"]
     ELSE [session |-> merged.session,
           persistent |-> merged.persistent,
           entry |-> saveProgress(merged.session, merged.persistent, entry, writable),
           returned |-> SessionResults(merged.session, merged.stars),
           threw |-> FALSE,
           saved |-> IF writable THEN "written" ELSE "failed"]

\* ------------------------------------------------------------- the calls
PMEngineIdle == UNCHANGED <<engineVars, sceneVars>>

\* startSession(difficulty)
StartSession(tiers) ==
  \E difficulty \in tiers :
    /\ sessionData' = startSession(difficulty, 5)
    /\ pmCall' = PMCall("startSession", NoArg, NoReturn, FALSE, "none")
    /\ UNCHANGED <<persistentData, storage, completedHigh, completedCount>>
    /\ PMEngineIdle

\* recordAnswer(isCorrect), at most maxAnswers times per session
RecordAnswer(maxAnswers) ==
  \E isCorrect \in BOOLEAN :
    /\ sessionData.totalAnswers < maxAnswers
    /\ sessionData' = recordAnswer(sessionData, isCorrect)
    /\ pmCall' = PMCall("recordAnswer", NoArg, NoReturn, FALSE, "none")
    /\ UNCHANGED <<persistentData, storage, completedHigh, completedCount>>
    /\ PMEngineIdle

\* incrementScore(points)
IncrementScore(inputs) ==
  \E points \in inputs :
    /\ incrementScore(sessionData, points).score <= MaxScore
    /\ sessionData' = incrementScore(sessionData, points)
    /\ pmCall' = PMCall("incrementScore", points, NoReturn, FALSE, "none")
    /\ UNCHANGED <<persistentData, storage, completedHigh, completedCount>>
    /\ PMEngineIdle

\* addBananas(count)
AddBananas(inputs) ==
  \E count \in inputs :
    /\ addBananas(sessionData, count).bananasCollected <= MaxBananas
    /\ sessionData' = addBananas(sessionData, count)
    /\ pmCall' = PMCall("addBananas", count, NoReturn, FALSE, "none")
    /\ UNCHANGED <<persistentData, storage, completedHigh, completedCount>>
    /\ PMEngineIdle

\* resetSession()
ResetSession ==
  /\ sessionData' = getDefaultSessionData
  /\ pmCall' = PMCall("resetSession", NoArg, NoReturn, FALSE, "none")
  /\ UNCHANGED <<persistentData, storage, completedHigh, completedCount>>
  /\ PMEngineIdle

\* calculateStars()
CalculateStars ==
  /\ pmCall' = PMCall("calculateStars", NoArg,
                      [kind |-> "stars", stars |-> calculateStars(sessionData)],
                      FALSE, "none")
  /\ UNCHANGED <<sessionData, persistentData, storage, completedHigh, completedCount>>
  /\ PMEngineIdle

\* completeSession(); writes tells whether localStorage.setItem may succeed
\* and whether it may throw; at most maxSessions sessions are counted
CompleteSession(writes, maxSessions) ==
  \E writable \in writes :
    LET done == completeSession(sessionData, persistentData, storage, writable)
        tier == sessionData.difficulty
    IN /\ persistentData.totalSessions < maxSessions
       /\ sessionData' = done.session
       /\ persistentData' = done.persistent
       /\ storage' = done.entry
       /\ pmCall' = PMCall("completeSession", NoArg, done.returned, done.threw,
                           done.saved)
       /\ completedHigh' =
            IF tier \in TierKeys
            THEN [completedHigh EXCEPT ![tier] = Max(@, sessionData.score)]
            ELSE completedHigh
       /\ completedCount' =
            IF tier \in TierKeys
            THEN [completedCount EXCEPT ![tier] = @ + 1]
            ELSE completedCount
       /\ PMEngineIdle

\* loadProgress(), also the whole of initialize(); reads tells whether
\* localStorage.getItem may succeed and whether it may throw
\* The history of completed sessions continues from what the loaded record
\* reports.
LoadProgress(reads) ==
  \E readable \in reads :
    LET loaded == loadProgress(persistentData, storage, readable)
    IN /\ persistentData' = loaded.persistent
       /\ pmCall' = PMCall("loadProgress", NoArg,
                           [kind |-> "boolean", value |-> loaded.success],
                           FALSE, IF readable THEN "none" ELSE "unreadable")
       /\ completedHigh' =
            IF loaded.success THEN [t \in TierKeys |-> loaded.persistent.highScores[t]]
            ELSE completedHigh
       /\ completedCount' =
            IF loaded.success
            THEN [t \in TierKeys |-> Len(loaded.persistent.levelsCompleted[t])]
            ELSE completedCount
       /\ UNCHANGED <<sessionData, storage>>
       /\ PMEngineIdle

\* new ProgressManager() on the same localStorage
NewManager ==
  /\ sessionData' = getDefaultSessionData
  /\ persistentData' = getDefaultPersistentData
  /\ pmCall' = PMCall("constructor", NoArg, NoReturn, FALSE, "none")
  /\ completedHigh' = [t \in TierKeys |-> 0]
  /\ completedCount' = [t \in TierKeys |-> 0]
  /\ UNCHANGED storage
  /\ PMEngineIdle

\* the entry is overwritten from outside with text that is no JSON
TamperEntry ==
  /\ storage # CorruptEntry
  /\ storage' = CorruptEntry
  /\ pmCall' = PMCall("tamper", NoArg, NoReturn, FALSE, "none")
  /\ UNCHANGED <<sessionData, persistentData, completedHigh, completedCount>>
  /\ PMEngineIdle

\* resetAllProgress(); removeItem may throw, which is caught
ResetAllProgress(writes) ==
  \E writable \in writes :
    /\ sessionData' = getDefaultSessionData
    /\ persistentData' = getDefaultPersistentData
    /\ storage' = IF writable THEN NoEntry ELSE storage
    /\ pmCall' = PMCall("resetAllProgress", NoArg, NoReturn, FALSE,
                        IF writable THEN "none" ELSE "failed")
    /\ completedHigh' = [t \in TierKeys |-> 0]
    /\ completedCount' = [t \in TierKeys |-> 0]
    /\ PMEngineIdle

\* the calls on the Session Record alone, with every kind of amount
NextSession ==
  \/ StartSession(TierInputs)
  \/ RecordAnswer(MaxAnswers)
  \/ IncrementScore(PointInputs)
  \/ AddBananas(PointInputs)
  \/ ResetSession

SpecSession == Init /\ [][NextSession]_vars

\* the amounts of the played sessions: GameScene adds one banana per call and
\* one fixed amount of score per call, counted here as one unit
SceneAmounts == {NumberInput(1)}

\* sessions played and completed while localStorage works
NextProgress ==
  \/ StartSession(TierInputs)
  \/ RecordAnswer(MaxAnswers)
  \/ IncrementScore(SceneAmounts)
  \/ AddBananas(SceneAmounts)
  \/ CompleteSession({TRUE}, MaxSessions)

SpecProgress == Init /\ [][NextProgress]_vars

\* the tiers played while the storage is examined
StorageTiers == {easy, medium}

\* managers created, loaded, used and reset on a localStorage that may fail
NextStorage ==
  \/ StartSession(StorageTiers)
  \/ IncrementScore(SceneAmounts)
  \/ RecordAnswer(MaxAnswers)
  \/ CompleteSession(BOOLEAN, MaxStoredSessions)
  \/ LoadProgress(BOOLEAN)
  \/ NewManager
  \/ TamperEntry
  \/ ResetAllProgress(BOOLEAN)

SpecStorage == Init /\ [][NextStorage]_vars

NextStars ==
  \/ StartSession(TierInputs)
  \/ RecordAnswer(MaxAnswersStars)
  \/ CalculateStars

SpecStars == Init /\ [][NextStars]_vars


\* ------------------------------------------------ claims C13 to C20
CalledWith(op) == pmCall'.op = op

StarRating(session) ==
  LET reaches(percent) ==
        session.totalAnswers > 0
        /\ session.correctAnswers * 100 >= percent * session.totalAnswers
  IN IF reaches(95) THEN 3 ELSE IF reaches(80) THEN 2 ELSE IF reaches(60) THEN 1 ELSE 0

\* C15: each completeSession call increases totalSessions by exactly 1,
\* totalBananas by the session's bananasCollected and totalStars by the
\* session's star rating, and stamps that rating into the Session Record.
C15_TotalsGrowBySession ==
  [][CalledWith("completeSession") =>
       /\ persistentData'.totalSessions = persistentData.totalSessions + 1
       /\ persistentData'.totalBananas =
            persistentData.totalBananas + sessionData.bananasCollected
       /\ persistentData'.totalStars =
            persistentData.totalStars + StarRating(sessionData)
       /\ sessionData'.starsEarned = StarRating(sessionData)
    ]_vars

\* a second completion, of a session with bananas and stars, whose Session
\* Record still carried fewer stars than the totals
C15_Witness ==
  /\ pmCall.op = "completeSession"
  /\ persistentData.totalSessions = 2
  /\ persistentData.totalBananas > 0
  /\ sessionData.starsEarned = 3
  /\ persistentData.totalStars = 3

\* C16: the high score of each tier never decreases and equals the maximum
\* score among the sessions completed on that tier (0 if none); completing a
\* session on one tier leaves the other tiers' high scores unchanged.
C16_HighScoreIsMaximum ==
  [][/\ \A t \in TierKeys :
          /\ persistentData'.highScores[t] >= persistentData.highScores[t]
          /\ persistentData'.highScores[t] = completedHigh'[t]
     /\ CalledWith("completeSession") =>
          \A t \in TierKeys \ {sessionData.difficulty} :
            persistentData'.highScores[t] = persistentData.highScores[t]
    ]_vars

\* a session with a lower score was completed on a tier that has a high score
C16_Witness ==
  /\ pmCall.op = "completeSession"
  /\ sessionData.difficulty = easy
  /\ completedCount[easy] = 2
  /\ sessionData.score < persistentData.highScores[easy]

\* C17: after n completed sessions on a tier, that tier's completed-level
\* list is exactly 1, 2, ..., n, and the lists of the other tiers are
\* unchanged by the completion.
C17_LevelsAreSequential ==
  [][/\ \A t \in TierKeys :
          /\ Len(persistentData'.levelsCompleted[t]) = completedCount'[t]
          /\ \A i \in 1..completedCount'[t] :
               persistentData'.levelsCompleted[t][i] = i
     /\ CalledWith("completeSession") =>
          \A t \in TierKeys \ {sessionData.difficulty} :
            persistentData'.levelsCompleted[t] = persistentData.levelsCompleted[t]
    ]_vars

\* one tier was completed after another one, which kept its list
C17_Witness ==
  /\ pmCall.op = "completeSession"
  /\ sessionData.difficulty = medium
  /\ persistentData.levelsCompleted[easy] = <<1>>
  /\ persistentData.levelsCompleted[medium] = <<1>>


\* C18: when the storage write fails during completeSession, the call does
\* not throw, the in-memory Persistent Record holds the merged result, and
\* the results snapshot (score, accuracy, stars, bananas, correct and total
\* answers) is returned.
C18_FailedWriteKeepsMerge ==
  [][(CalledWith("completeSession") /\ pmCall'.saved = "failed") =>
       LET tier == sessionData.difficulty
           results == pmCall'.ret
       IN /\ ~pmCall'.threw
          /\ storage' = storage
          /\ persistentData'.totalSessions = persistentData.totalSessions + 1
          /\ persistentData'.totalStars =
               persistentData.totalStars + StarRating(sessionData)
          /\ persistentData'.highScores[tier] =
               Max(persistentData.highScores[tier], sessionData.score)
          /\ persistentData'.levelsCompleted[tier] =
               Append(persistentData.levelsCompleted[tier],
                      Len(persistentData.levelsCompleted[tier]) + 1)
          /\ results.score = sessionData.score
          /\ results.stars = StarRating(sessionData)
          /\ results.bananas = sessionData.bananasCollected
          /\ results.correctAnswers = sessionData.correctAnswers
          /\ results.totalAnswers = sessionData.totalAnswers
          /\ results.accuracy.num * Max(sessionData.totalAnswers, 1) =
               sessionData.correctAnswers * 100 * results.accuracy.den
    ]_vars

\* a session with a score and a correct answer was completed while the write
\* failed, and nothing is stored
C18_Witness ==
  /\ pmCall.op = "completeSession"
  /\ pmCall.saved = "failed"
  /\ storage = NoEntry
  /\ persistentData.totalSessions = 1
  /\ pmCall.ret.score > 0
  /\ pmCall.ret.stars = 3

\* the Persistent Record of a fresh ProgressManager that loads the entry
FreshLoad(entry) == loadProgress(getDefaultPersistentData, entry, TRUE).persistent

\* C19: after completeSession, a fresh ProgressManager that loads from the
\* same storage has the totalSessions, totalBananas, totalStars, per-tier
\* high scores and completed-level lists of the first instance.
C19_ReloadMatches ==
  pmCall.op = "completeSession" =>
    LET fresh == FreshLoad(storage)
    IN /\ fresh.totalSessions = persistentData.totalSessions
       /\ fresh.totalBananas = persistentData.totalBananas
       /\ fresh.totalStars = persistentData.totalStars
       /\ fresh.highScores = persistentData.highScores
       /\ fresh.levelsCompleted = persistentData.levelsCompleted

\* C20: loadProgress on an entry that is missing, is not valid JSON or
\* cannot be read returns false without throwing and leaves the in-memory
\* Persistent Record at its previous values.
C20_FailedLoadChangesNothing ==
  [][(/\ CalledWith("loadProgress")
      /\ \/ storage = NoEntry
         \/ storage = CorruptEntry
         \/ pmCall'.saved = "unreadable") =>
       /\ ~pmCall'.threw
       /\ pmCall'.ret = [kind |-> "boolean", value |-> FALSE]
       /\ persistentData' = persistentData
    ]_vars

\* an entry that is no JSON was loaded by a manager that had completed a
\* session
C20_Witness ==
  /\ pmCall.op = "loadProgress"
  /\ pmCall.saved = "none"
  /\ storage = CorruptEntry
  /\ persistentData.totalSessions = 1


\* ------------------------------- ProgressManager: the remaining writers
\* updatePreferences(preferences): the preferences are merged, then saved
updatePreferences(session, persistent, entry, preferences, writable) ==
  LET merged == [persistent EXCEPT
                   !.preferences = SpreadOver(persistent.preferences, preferences)]
  IN [persistent |-> merged,
      entry |-> saveProgress(session, merged, entry, writable)]

\* importProgress(data): data.persistent, when there is one, is spread over
\* the defaults; saveProgress is called in both cases and true is returned
importProgress(session, persistent, entry, data, writable) ==
  LET imported == IF "persistent" \in DOMAIN data
                  THEN SpreadOver(getDefaultPersistentData, data.persistent)
                  ELSE persistent
  IN [persistent |-> imported,
      entry |-> saveProgress(session, imported, entry, writable),
      success |-> TRUE]

\* the preference updates of the unit tests
PreferenceInputs == {[soundEnabled |-> FALSE]}

\* objects given to importProgress: one without a persistent part and an
\* export of a new manager
ImportInputs == {[invalid |-> "data"], [persistent |-> getDefaultPersistentData]}

\* updatePreferences(preferences)
UpdatePreferences(writes) ==
  \E preferences \in PreferenceInputs, writable \in writes :
    LET updated == updatePreferences(sessionData, persistentData, storage,
                                     preferences, writable)
    IN /\ persistentData' = updated.persistent
       /\ storage' = updated.entry
       /\ pmCall' = PMCall("updatePreferences", NoArg, NoReturn, FALSE,
                           IF writable THEN "written" ELSE "failed")
       /\ UNCHANGED <<sessionData, completedHigh, completedCount>>
       /\ PMEngineIdle

\* importProgress(data); the history continues from the imported record
ImportProgress(writes) ==
  \E data \in ImportInputs, writable \in writes :
    LET imported == importProgress(sessionData, persistentData, storage, data,
                                   writable)
    IN /\ persistentData' = imported.persistent
       /\ storage' = imported.entry
       /\ pmCall' = PMCall("importProgress", NoArg,
                           [kind |-> "boolean", value |-> imported.success], FALSE,
                           IF writable THEN "written" ELSE "failed")
       /\ completedHigh' = [t \in TierKeys |-> imported.persistent.highScores[t]]
       /\ completedCount' =
            [t \in TierKeys |-> Len(imported.persistent.levelsCompleted[t])]
       /\ UNCHANGED sessionData
       /\ PMEngineIdle

\* every operation of the Progress Model that can reach the storage entry,
\* and the ones that fill a session, while localStorage works
NextWrites ==
  \/ StartSession(StorageTiers)
  \/ RecordAnswer(MaxAnswers)
  \/ IncrementScore(SceneAmounts)
  \/ AddBananas(SceneAmounts)
  \/ ResetSession
  \/ CompleteSession({TRUE}, MaxStoredSessions)
  \/ ResetAllProgress({TRUE})
  \/ UpdatePreferences({TRUE})
  \/ ImportProgress({TRUE})

SpecWrites == Init /\ [][NextWrites]_vars

\* C21: the storage entry is written or removed only by completeSession,
\* resetAllProgress and updatePreferences; no other operation changes it, so
\* an uncompleted session never reaches storage.
C21_OnlyThreeWriters ==
  [][storage' # storage =>
       pmCall'.op \in {"completeSession", "resetAllProgress", "updatePreferences"}
    ]_vars

\* what saveProgress stores of a Session Record
LastSessionOf(session) ==
  [difficulty |-> session.difficulty,
   score |-> session.score,
   stars |-> session.starsEarned,
   bananas |-> session.bananasCollected]

\* C22: whenever the storage entry exists, its lastSession field describes
\* the most recently completed session (tier, final score, bananas, the star
\* rating computed at completion), never a live session: a completion stores
\* the completed session, every other step leaves the field as it is.
C22_LastSessionIsCompleted ==
  [][storage'.kind = "json" =>
       IF CalledWith("completeSession")
       THEN storage'.value.lastSession =
              [LastSessionOf(sessionData) EXCEPT !.stars = StarRating(sessionData)]
       ELSE /\ storage.kind = "json"
            /\ storage'.value.lastSession = storage.value.lastSession
    ]_vars

\* C23: once completeSession has run, recordAnswer, incrementScore and
\* addBananas leave the Session Record unchanged until the next startSession.
C23_CompletedSessionIsFrozen ==
  [][(/\ pmCall.op = "completeSession"
      /\ pmCall'.op \in {"recordAnswer", "incrementScore", "addBananas"}) =>
       sessionData' = sessionData
    ]_vars

\* C27: completeSession never throws, whatever tier string the session was
\* started with.
C27_CompleteSessionNeverThrows ==
  pmCall.op = "completeSession" => ~pmCall.threw


\* ------------------------------------------------ GameScene and NumberPad
\* The operations of the scene are modelled as the entry points they are:
\* startGame, handleAnswer, togglePause and the delayed callbacks.  create()
\* itself stops in setupInput at line 233, where inputManager.setAnswerCallback
\* is called and InputManager defines no such method; the listener of
\* 'numberpad-submit' is registered after that line, so both wirings of the
\* NumberPad are examined.  The keyboard is never set up (initialize() is
\* called without a scene) and delivers nothing.  GameScene.currentQuestion
\* is only displayed; validateAnswer reads the engine's current question.

\* SCORING.CORRECT_ANSWER
CORRECT_ANSWER == 100

\* the most digits the player types into the NumberPad before submitting
MaxTyped == 1

\* Math.random() samples of the scene: the first available template, and
\* operands 0 and 1 on the easy tier
SceneSelectSamples == {0}
SceneOperandSamples == {0, 3}

\* the tier the menu hands to the scene
SceneTiers == {easy}

\* the buttons 0 to 9 of the NumberPad that the player uses
PadKeys == {0, 1, 2}

\* the callbacks of time.delayedCall and of the tweens
ToWaiting == "QUESTION_FADE_IN"
AfterCorrect == "FEEDBACK_DISPLAY_TIME correct"
AfterIncorrect == "FEEDBACK_DISPLAY_TIME incorrect"
Celebrated == "celebrate"
Swung == "moveForward"
Collected == "BANANA_COLLECT"
Skip == "skip"
LevelCelebrated == "celebrate level"
ToResults == "CELEBRATION_DURATION"

\* MathEngine.getNextQuestion() as a function of the engine's fields
getNextQuestion(bankName, difficulty, recent, current, ks, ka, kb) ==
  LET bank == EffectiveBank(bankName)
      pool == PoolOf(bank, difficulty)
      available == Available(pool, recent)
      questionPool == IF Len(available) > 0 THEN available ELSE pool
  IN IF Len(pool) = 0
     THEN [bank |-> bank, recent |-> recent, current |-> current,
           returned |-> generateFallbackQuestion(ka, kb)]
     ELSE LET template == getRandomElement(questionPool, ks)
              question == generateQuestion(template, ka, kb, difficulty)
          IN [bank |-> bank,
              recent |-> addToRecentQuestions(recent, template.id),
              current |-> question,
              returned |-> question]

\* the fields handleAnswer and showFeedback work on
AnswerState ==
  [gameState |-> gameState, attemptCount |-> attemptCount, timers |-> timers,
   padInteractive |-> padInteractive, session |-> sessionData, taken |-> 0,
   threw |-> FALSE]

\* showFeedback(result)
showFeedback(st, result) ==
  IF result.correct
  THEN [st EXCEPT !.gameState = SHOWING_FEEDBACK,
                  !.session = incrementScore(recordAnswer(@, TRUE),
                                             NumberInput(CORRECT_ANSWER)),
                  !.timers = @ \cup {AfterCorrect}]
  ELSE [st EXCEPT !.gameState = SHOWING_FEEDBACK,
                  !.session = recordAnswer(@, FALSE),
                  !.timers = @ \cup {AfterIncorrect}]

\* variant of handleAnswer without the check of the state
handleAnswer_anyState(st, userAnswer, question) ==
  LET result == MathEngine_validateAnswer(StringInput(userAnswer), NoExpected,
                                          question)
      validating == [st EXCEPT !.gameState = VALIDATING, !.padInteractive = FALSE]
  IN IF result.threw THEN [validating EXCEPT !.threw = TRUE]
     ELSE showFeedback([validating EXCEPT !.attemptCount = @ + 1,
                                          !.taken = @ + 1], result)

\* handleAnswer(userAnswer)
handleAnswer(st, userAnswer, question) ==
  IF st.gameState # WAITING_INPUT THEN st
  ELSE LET result == MathEngine_validateAnswer(StringInput(userAnswer), NoExpected,
                                               question)
           validating == [st EXCEPT !.gameState = VALIDATING,
                                    !.padInteractive = FALSE]
       IN IF result.threw THEN [validating EXCEPT !.threw = TRUE]
          ELSE showFeedback([validating EXCEPT !.attemptCount = @ + 1,
                                               !.taken = @ + 1], result)

\* NumberPad.onNumberPress(number)
onNumberPress(input, number) ==
  IF Len(input) >= 3 THEN input
  ELSE (IF input = <<"0">> THEN << >> ELSE input) \o NatToString(number)

\* NumberPad.onBackspace()
onBackspace(input) ==
  LET sliced == IF Len(input) > 0 THEN SubSeq(input, 1, Len(input) - 1) ELSE input
  IN IF sliced = << >> THEN <<"0">> ELSE sliced

\* NumberPad.clear()
clear == <<"0">>

\* NumberPad.onSubmit(): how many times the input is handed to handleAnswer;
\* nothing for an empty input or '0', otherwise once through the event when
\* it has its listener and once through the submit callback
SubmitDeliveries(input, listener) ==
  IF input = << >> \/ input = <<"0">> THEN 0
  ELSE IF listener THEN 2 ELSE 1


\* the scene is running: startGame was called and the ResultsScene has not
\* been started
Running == sceneCall.op \notin {"constructor", "initializeSystems", "transitionToResults"}

\* completeLevel(), reached with the given index and the timers still pending
CompleteLevel(index, pendingTimers, op) ==
  /\ gameState' = COMPLETE
  /\ currentQuestionIndex' = index
  /\ timers' = pendingTimers \cup {LevelCelebrated}
  /\ sceneCall' = SceneCall(op, NoAnswer, FALSE)
  /\ UNCHANGED <<attemptCount, currentInput, padInteractive>>
  /\ UNCHANGED engineVars

\* presentNextQuestion(), reached with the given index and the timers still
\* pending: numberPad.show() clears the input, enableInput makes the buttons
\* interactive
PresentNextQuestion(index, pendingTimers, op) ==
  IF index >= TotalQuestions
  THEN CompleteLevel(index, pendingTimers, op)
  ELSE \E ks \in SceneSelectSamples, ka \in SceneOperandSamples,
          kb \in SceneOperandSamples :
         LET next == getNextQuestion(questionBank, currentDifficulty, recentQuestions,
                                     currentQuestion, ks, ka, kb)
         IN /\ gameState' = PRESENTING_QUESTION
            /\ attemptCount' = 0
            /\ currentQuestionIndex' = index
            /\ questionBank' = next.bank
            /\ recentQuestions' = next.recent
            /\ currentQuestion' = next.current
            /\ currentInput' = clear
            /\ padInteractive' = TRUE
            /\ timers' = pendingTimers \cup {ToWaiting}
            /\ sceneCall' = SceneCall(op, NoAnswer, FALSE)
            /\ UNCHANGED <<currentDifficulty, lastCall, drawn, runLen, pending>>

\* initializeSystems(): a new MathEngine with the default bank and the tier,
\* a new ProgressManager that loads the entry and starts a session; with it,
\* createUI and the part of setupInput that was reached
InitializeSystems ==
  \E difficulty \in SceneTiers, listener \in BOOLEAN :
    /\ sceneCall.op = "constructor"
    /\ questionBank' = "default"
    /\ currentDifficulty' = difficulty
    /\ recentQuestions' = << >>
    /\ currentQuestion' = NullQuestion
    /\ persistentData' = loadProgress(getDefaultPersistentData, storage, TRUE).persistent
    /\ sessionData' = startSession(difficulty, 5)
    /\ pmCall' = PMCall("startSession", NoArg, NoReturn, FALSE, "none")
    /\ submitListener' = listener
    /\ sceneCall' = SceneCall("initializeSystems", NoAnswer, FALSE)
    /\ UNCHANGED <<lastCall, drawn, runLen, pending, storage, completedHigh,
                   completedCount, gameState, previousState, currentQuestionIndex,
                   attemptCount, timers, isMoving, currentInput, padInteractive>>

\* startGame()
StartGame ==
  /\ sceneCall.op = "initializeSystems"
  /\ PresentNextQuestion(currentQuestionIndex, timers, "startGame")
  /\ UNCHANGED <<previousState, isMoving, submitListener>>
  /\ UNCHANGED pmVars

\* the delayed call of presentNextQuestion
FireToWaiting ==
  /\ ToWaiting \in timers
  /\ gameState' = WAITING_INPUT
  /\ timers' = timers \ {ToWaiting}
  /\ sceneCall' = SceneCall(ToWaiting, NoAnswer, FALSE)
  /\ UNCHANGED <<previousState, currentQuestionIndex, attemptCount, isMoving,
                 currentInput, padInteractive, submitListener>>
  /\ UNCHANGED <<engineVars, pmVars>>

\* the delayed call of showFeedback after a correct answer:
\* animateCorrectAnswer(), gorilla.celebrate(callback)
FireAfterCorrect ==
  /\ AfterCorrect \in timers
  /\ gameState' = ANIMATING
  /\ timers' = (timers \ {AfterCorrect}) \cup {Celebrated}
  /\ sceneCall' = SceneCall(AfterCorrect, NoAnswer, FALSE)
  /\ UNCHANGED <<previousState, currentQuestionIndex, attemptCount, isMoving,
                 currentInput, padInteractive, submitListener>>
  /\ UNCHANGED <<engineVars, pmVars>>

\* the callback of gorilla.celebrate: moveGorillaForward(); Gorilla.moveForward
\* returns without a tween, and without its callback, while the gorilla moves
FireCelebrated ==
  /\ Celebrated \in timers
  /\ IF isMoving
     THEN /\ timers' = timers \ {Celebrated}
          /\ UNCHANGED isMoving
     ELSE /\ timers' = (timers \ {Celebrated}) \cup {Swung}
          /\ isMoving' = TRUE
  /\ sceneCall' = SceneCall(Celebrated, NoAnswer, FALSE)
  /\ UNCHANGED <<gameState, previousState, currentQuestionIndex, attemptCount,
                 currentInput, padInteractive, submitListener>>
  /\ UNCHANGED <<engineVars, pmVars>>

\* the end of the movement tween: collectBanana(targetBanana) for the banana
\* of the question, which exists for every index below totalQuestions
FireSwung ==
  /\ Swung \in timers
  /\ isMoving' = FALSE
  /\ timers' = (timers \ {Swung}) \cup {Collected}
  /\ sessionData' = addBananas(sessionData, NumberInput(1))
  /\ pmCall' = PMCall("addBananas", NumberInput(1), NoReturn, FALSE, "none")
  /\ sceneCall' = SceneCall(Swung, NoAnswer, FALSE)
  /\ UNCHANGED <<gameState, previousState, currentQuestionIndex, attemptCount,
                 currentInput, padInteractive, submitListener>>
  /\ UNCHANGED <<persistentData, storage, completedHigh, completedCount>>
  /\ UNCHANGED engineVars

\* the delayed call of collectBanana: onAnimationComplete()
FireCollected ==
  /\ Collected \in timers
  /\ PresentNextQuestion(currentQuestionIndex + 1, timers \ {Collected}, Collected)
  /\ UNCHANGED <<previousState, isMoving, submitListener>>
  /\ UNCHANGED pmVars

\* the delayed call of showFeedback after an incorrect answer: allowRetry()
FireAfterIncorrect ==
  /\ AfterIncorrect \in timers
  /\ IF attemptCount >= 3
     THEN /\ timers' = (timers \ {AfterIncorrect}) \cup {Skip}
          /\ UNCHANGED <<gameState, currentInput, padInteractive>>
     ELSE /\ timers' = timers \ {AfterIncorrect}
          /\ currentInput' = clear
          /\ padInteractive' = TRUE
          /\ gameState' = WAITING_INPUT
  /\ sceneCall' = SceneCall(AfterIncorrect, NoAnswer, FALSE)
  /\ UNCHANGED <<previousState, currentQuestionIndex, attemptCount, isMoving,
                 submitListener>>
  /\ UNCHANGED <<engineVars, pmVars>>

\* the delayed call of allowRetry after the third attempt
FireSkip ==
  /\ Skip \in timers
  /\ PresentNextQuestion(currentQuestionIndex + 1, timers \ {Skip}, Skip)
  /\ UNCHANGED <<previousState, isMoving, submitListener>>
  /\ UNCHANGED pmVars

\* the callback of gorilla.celebrate in completeLevel: saveProgress()
FireLevelCelebrated ==
  /\ LevelCelebrated \in timers
  /\ timers' = (timers \ {LevelCelebrated}) \cup {ToResults}
  /\ storage' = saveProgress(sessionData, persistentData, storage, TRUE)
  /\ pmCall' = PMCall("saveProgress", NoArg, [kind |-> "boolean", value |-> TRUE],
                      FALSE, "written")
  /\ sceneCall' = SceneCall(LevelCelebrated, NoAnswer, FALSE)
  /\ UNCHANGED <<gameState, previousState, currentQuestionIndex, attemptCount,
                 isMoving, currentInput, padInteractive, submitListener>>
  /\ UNCHANGED <<sessionData, persistentData, completedHigh, completedCount>>
  /\ UNCHANGED engineVars

\* the delayed call of completeLevel: transitionToResults() reads the
\* statistics and starts the ResultsScene; the shutdown of the scene removes
\* its remaining timers and tweens
FireToResults ==
  /\ ToResults \in timers
  /\ timers' = {}
  /\ sceneCall' = SceneCall("transitionToResults", NoAnswer, FALSE)
  /\ UNCHANGED <<gameState, previousState, currentQuestionIndex, attemptCount,
                 isMoving, currentInput, padInteractive, submitListener>>
  /\ UNCHANGED <<engineVars, pmVars>>


\* togglePause(): resumeGame() when paused, pauseGame() unless complete;
\* changed tells whether either ran
togglePause(state, previous) ==
  IF state = PAUSED
  THEN [gameState |-> IF previous # Undefined THEN previous ELSE WAITING_INPUT,
        previousState |-> previous, padInteractive |-> TRUE, changed |-> TRUE]
  ELSE IF state # COMPLETE
       THEN [gameState |-> PAUSED, previousState |-> state,
             padInteractive |-> FALSE, changed |-> TRUE]
       ELSE [gameState |-> state, previousState |-> previous,
             padInteractive |-> FALSE, changed |-> FALSE]

\* the ESC key: togglePause()
TogglePause ==
  /\ Running
  /\ LET toggled == togglePause(gameState, previousState)
     IN /\ gameState' = toggled.gameState
        /\ previousState' = toggled.previousState
        /\ padInteractive' = IF toggled.changed THEN toggled.padInteractive
                             ELSE padInteractive
        /\ sceneCall' = SceneCall(IF gameState = PAUSED THEN "resumeGame"
                                  ELSE IF toggled.changed THEN "pauseGame"
                                  ELSE "togglePause", NoAnswer, FALSE)
  /\ UNCHANGED <<currentQuestionIndex, attemptCount, timers, isMoving, currentInput,
                 submitListener>>
  /\ UNCHANGED <<engineVars, pmVars>>

\* a number button of the NumberPad is pressed
PressNumber ==
  \E number \in PadKeys :
    /\ Running
    /\ padInteractive
    /\ Len(onNumberPress(currentInput, number)) <= MaxTyped
    /\ currentInput' = onNumberPress(currentInput, number)
    /\ sceneCall' = SceneCall("onNumberPress", NoAnswer, FALSE)
    /\ UNCHANGED <<gameState, previousState, currentQuestionIndex, attemptCount,
                   timers, isMoving, padInteractive, submitListener>>
    /\ UNCHANGED <<engineVars, pmVars>>

\* the backspace or the clear button is pressed
PressErase ==
  \E erased \in {onBackspace(currentInput), clear} :
    /\ Running
    /\ padInteractive
    /\ currentInput' = erased
    /\ sceneCall' = SceneCall("onBackspace or clear", NoAnswer, FALSE)
    /\ UNCHANGED <<gameState, previousState, currentQuestionIndex, attemptCount,
                   timers, isMoving, padInteractive, submitListener>>
    /\ UNCHANGED <<engineVars, pmVars>>

\* the Submit button is pressed: onSubmit() hands the input to handleAnswer
\* as often as SubmitDeliveries tells, one call after the other
PressSubmit ==
  /\ Running
  /\ padInteractive
  /\ LET deliveries == SubmitDeliveries(currentInput, submitListener)
         first == IF deliveries >= 1
                  THEN handleAnswer(AnswerState, currentInput, currentQuestion)
                  ELSE AnswerState
         last == IF deliveries >= 2 /\ ~first.threw
                 THEN handleAnswer(first, currentInput, currentQuestion)
                 ELSE first
     IN /\ gameState' = last.gameState
        /\ attemptCount' = last.attemptCount
        /\ timers' = last.timers
        /\ padInteractive' = last.padInteractive
        /\ sessionData' = last.session
        /\ pmCall' = IF last.taken = 0 THEN pmCall
                     ELSE IF last.session.score # sessionData.score
                          THEN PMCall("incrementScore", NumberInput(CORRECT_ANSWER),
                                      NoReturn, FALSE, "none")
                          ELSE PMCall("recordAnswer", NoArg, NoReturn, FALSE, "none")
        /\ sceneCall' = [op |-> "onSubmit", answer |-> currentInput,
                         taken |-> last.taken > 0]
  /\ UNCHANGED <<previousState, currentQuestionIndex, isMoving, currentInput,
                 submitListener>>
  /\ UNCHANGED <<persistentData, storage, completedHigh, completedCount>>
  /\ UNCHANGED engineVars

\* one game of the scene
NextScene ==
  \/ InitializeSystems
  \/ StartGame
  \/ FireToWaiting
  \/ FireAfterCorrect
  \/ FireCelebrated
  \/ FireSwung
  \/ FireCollected
  \/ FireAfterIncorrect
  \/ FireSkip
  \/ FireLevelCelebrated
  \/ FireToResults
  \/ TogglePause
  \/ PressNumber
  \/ PressErase
  \/ PressSubmit

SpecScene == Init /\ [][NextScene]_vars


\* ---------------------------------------------------------------------------
\* GameScene: the claims
\* ---------------------------------------------------------------------------

\* the level has ended and the scene has handed over to the ResultsScene
LevelOver == sceneCall.op = "transitionToResults"

AnswersRecorded(session) == session.correctAnswers + session.incorrectAnswers

C28_WitnessIgnored ==
  /\ sceneCall.op = "onSubmit"
  /\ ~sceneCall.taken
  /\ sceneCall.answer \notin {<< >>, <<"0">>}


\* the decimal string the player has to type for the current question
WantedInput == NatToString(currentQuestion.answer)

\* C30: every question the engine generates can be answered through the
\* pad: when the game waits for input and the pad holds the decimal string of
\* the question's answer, Submit hands it to handleAnswer, which takes it
C30_EveryAnswerCanBeSubmitted ==
  [][(/\ sceneCall'.op = "onSubmit"
      /\ gameState = WAITING_INPUT
      /\ currentInput = WantedInput) => sceneCall'.taken]_vars


\* the Submit button, pressed when handleAnswer takes the input
PlayerAnswers == PressSubmit /\ sceneCall'.taken

\* a number button other than 0, pressed so that the pad holds an answer
\* that Submit delivers
PlayerTypes == PressNumber /\ currentInput' # <<"0">>

\* the ESC key, pressed while the game is paused
PlayerResumes == TogglePause /\ gameState = PAUSED

\* The scheduling of one game: the clock of the scene fires every pending
\* delayed call and every tween ends; the player types a number when the pad
\* shows none, submits again and again while answers are accepted, and resumes
\* a paused game.
SceneFairness ==
  /\ WF_vars(InitializeSystems)
  /\ WF_vars(StartGame)
  /\ WF_vars(FireToWaiting)
  /\ WF_vars(FireAfterCorrect)
  /\ WF_vars(FireCelebrated)
  /\ WF_vars(FireSwung)
  /\ WF_vars(FireCollected)
  /\ WF_vars(FireAfterIncorrect)
  /\ WF_vars(FireSkip)
  /\ WF_vars(FireLevelCelebrated)
  /\ WF_vars(FireToResults)
  /\ WF_vars(PlayerResumes)
  /\ SF_vars(PlayerTypes)
  /\ SF_vars(PlayerAnswers)

SpecSceneFair == Init /\ [][NextScene]_vars /\ SceneFairness

\* the game takes an answer of the pad
AcceptsAnswer == gameState = WAITING_INPUT /\ padInteractive

EveryGameCompletes == <>(gameState = COMPLETE)

====
